---- MODULE Spec2Model ----
(***************************************************************************)
(* FileDitto: the client-side job orchestration layer.                     *)
(*                                                                         *)
(* The job collection is the React state `files` of the useFiles hook.    *)
(* Every operation that awaits an engine call is split at its await: the  *)
(* synchronous part up to the await is one action, the continuation after *)
(* the awaited promise settles is another, and engine events may be       *)
(* delivered in between.  State updates go through functional setFiles    *)
(* updaters, so each one is applied atomically to the current collection. *)
(* The operations are modelled as the hooks and the service export them;  *)
(* the conditional rendering of buttons is not part of the model.         *)
(***************************************************************************)
EXTENDS Integers, Sequences, FiniteSets, Bags, TLC

\* ------------------------------------------------------------------------
\* Bounds
\* ------------------------------------------------------------------------
MaxFiles == 2      \* file items created (crypto.randomUUID values drawn)
MaxConv == 2       \* conversion ids the engine hands out
MaxStarts == 2     \* startConversion invocations made in a run (they may overlap)
MaxAdds == 1       \* handleFilePaths invocations in flight at once
MaxOverlap == 2    \* handleFilePaths invocations in flight at once, overlapping intake
MaxOverlapFiles == 4 \* file items created, overlapping intake
MaxOps == 1        \* removeFile / clearAllFiles / cancelAllConversions invocations
                   \* in flight at once

\* ------------------------------------------------------------------------
\* Values
\* ------------------------------------------------------------------------
\* JavaScript `undefined` in a string-valued field.
UNDEF == "undefined"
\* `conversionId` absent (conversion ids are 1..MaxConv).
NoConv == 0
\* Message written by cancelConversion.
CANCEL_MSG == "Conversion was cancelled by user"
\* Error text thrown by TauriAPI.convertFile, as wrapped by the catch block
\* of ConversionService.startConversion.
DISPATCH_MSG == "Failed to start conversion: Error: Failed to start conversion: DispatchError"

Paths == {"/in/clip.mov"}
\* Paths of the intake specification (two files that can be told apart).
IntakePaths == {"/in/clip.mov", "/in/song.wav"}
Formats == {"", "mp4"}
\* `status` texts of progress events.
ProgressTexts == {"Converting", "Starting"}
\* Payloads of conversion_complete events.
CompletionPayloads ==
    { [success |-> TRUE,  output_path |-> "/in/clip_converted.mp4", error |-> UNDEF],
      [success |-> FALSE, output_path |-> UNDEF, error |-> "codec error"] }
\* What the engine's cancel command does: resolve true, resolve false, reject.
CancelOutcomes == {"true", "false", "throw"}

ConvIds == 1..MaxConv
FileIds == 1..MaxFiles

VARIABLES
    files,          \* useFiles: the job collection (sequence of FileItem)
    isLoading,      \* useFiles: loading flag
    nextId,         \* number of file ids drawn so far
    adds,           \* handleFilePaths invocations suspended at extractFileMetadata
    starts,         \* startConversion invocations suspended at convertFile
    cancels,        \* cancelConversion invocations suspended at the cancel call
    convState,      \* engine: state of each conversion id
    startCalls,     \* startConversion invocations made so far
    ops,            \* removeFile / clearAllFiles / cancelAllConversions invocations
                    \* suspended at their cancel calls
    unhandled,      \* operations that ended in a rejection nobody caught
    fnCall,         \* a call of one of the pure helpers: its arguments and result
    sub,            \* useConversion effect: the event subscription
    cancelRequested, \* conversion ids TauriAPI.cancelConversion was called with so far
    last            \* the step just taken, for the steps the properties single out

vars == <<files, isLoading, nextId, adds, starts, cancels, convState, startCalls,
          ops, unhandled, fnCall, last, cancelRequested, sub>>

\* ------------------------------------------------------------------------
\* FileItem and the store's update helpers
\* ------------------------------------------------------------------------
\* An item whose id is derived from its path.
NewFileItem_IdFromPath(id, path) ==
    [id |-> IF path = "/in/clip.mov" THEN 1 ELSE 2, path |-> path, status |-> "pending",
     conversionId |-> NoConv, outputFormat |-> UNDEF, errorMessage |-> UNDEF,
     outputPath |-> UNDEF, metadata |-> FALSE]

\* The object literal built in handleFilePaths (name, size and type are
\* derived from the path and the metadata and are not tracked).
NewFileItem(id, path) ==
    [id |-> id, path |-> path, status |-> "pending", conversionId |-> NoConv,
     outputFormat |-> UNDEF, errorMessage |-> UNDEF, outputPath |-> UNDEF,
     metadata |-> FALSE]

\* { ...file, ...updates }: every key present in updates overwrites, also
\* when its value is undefined.
Merge(file, updates) ==
    [k \in DOMAIN file |-> IF k \in DOMAIN updates THEN updates[k] ELSE file[k]]

\* An update that is applied to every file of the list.
updateFileStatus_All(fs, fileId, updates) ==
    [i \in 1..Len(fs) |-> Merge(fs[i], updates)]

\* An update that puts a job with the id at the head of the list when none
\* has it.
updateFileStatus_Reinsert(fs, fileId, updates) ==
    IF \E i \in 1..Len(fs) : fs[i].id = fileId
    THEN [i \in 1..Len(fs) |-> IF fs[i].id = fileId THEN Merge(fs[i], updates) ELSE fs[i]]
    ELSE <<Merge(NewFileItem(fileId, ""), updates)>> \o fs

\* An update that adds a job when none has the id.
updateFileStatus_Upsert(fs, fileId, updates) ==
    IF \E i \in 1..Len(fs) : fs[i].id = fileId
    THEN [i \in 1..Len(fs) |-> IF fs[i].id = fileId THEN Merge(fs[i], updates) ELSE fs[i]]
    ELSE Append(fs, Merge(NewFileItem(fileId, ""), updates))

\* prev.map(file => file.id === fileId ? { ...file, ...updates } : file)
updateFileStatus(fs, fileId, updates) ==
    [i \in 1..Len(fs) |-> IF fs[i].id = fileId THEN Merge(fs[i], updates) ELSE fs[i]]

\* An update that moves the files it changes to the end of the list.
updateFilesByConversionId_MovesToEnd(fs, conversionId, updates) ==
    SelectSeq(fs, LAMBDA f : f.conversionId # conversionId)
        \o [i \in 1..Len(SelectSeq(fs, LAMBDA f : f.conversionId = conversionId)) |->
               Merge(SelectSeq(fs, LAMBDA f : f.conversionId = conversionId)[i], updates)]

\* A lookup that also takes the files that hold no conversion id.
updateFilesByConversionId_MatchesUnset(fs, conversionId, updates) ==
    [i \in 1..Len(fs) |->
        IF fs[i].conversionId = conversionId \/ fs[i].conversionId = NoConv
        THEN Merge(fs[i], updates) ELSE fs[i]]

updateFilesByConversionId(fs, conversionId, updates) ==
    [i \in 1..Len(fs) |->
        IF fs[i].conversionId = conversionId THEN Merge(fs[i], updates) ELSE fs[i]]

\* A reset in two steps: a file that still holds a conversion id only loses
\* the id, a file without one is made pending.
resetFilesForRetry_Stepwise(fs) ==
    [i \in 1..Len(fs) |->
        IF fs[i].conversionId # NoConv
        THEN Merge(fs[i], [conversionId |-> NoConv])
        ELSE Merge(fs[i], [status |-> "pending", errorMessage |-> UNDEF,
                           outputFormat |-> UNDEF])]

\* A reset that leaves the conversion id in place.
resetFilesForRetry_KeepsId(fs) ==
    [i \in 1..Len(fs) |->
        Merge(fs[i], [status |-> "pending", errorMessage |-> UNDEF,
                      outputFormat |-> UNDEF])]

\* prev.map(file => ({...file, status: "pending", progress: undefined,
\* errorMessage: undefined, conversionId: undefined, outputFormat: undefined}))
\* (`progress` is not a tracked field; outputPath is not among the keys).
resetFilesForRetry(fs) ==
    [i \in 1..Len(fs) |->
        Merge(fs[i], [status |-> "pending", errorMessage |-> UNDEF,
                      conversionId |-> NoConv, outputFormat |-> UNDEF])]

\* `x || undefined` for a string or undefined x.
OrUndefined(x) == IF x = "" THEN UNDEF ELSE x

\* Status of the job with this id in the store ("absent" when not there).
StatusInStore(fs, fileId) ==
    IF \E i \in 1..Len(fs) : fs[i].id = fileId
    THEN (CHOOSE f \in {fs[i] : i \in 1..Len(fs)} : f.id = fileId).status
    ELSE "absent"

Other == [op |-> "other", c |-> NoConv, outcome |-> "-", k |-> 0, settled |-> 0,
          failed |-> FALSE, done |-> FALSE]
Idle == [st |-> "idle"]
FreeSlot(slots) == CHOOSE s \in DOMAIN slots : slots[s] = Idle /\ \A r \in DOMAIN slots : r < s => slots[r] # Idle

\* ------------------------------------------------------------------------
\* Where a rejected engine call ends up
\* ------------------------------------------------------------------------
\* TauriAPI wrappers that rethrow a rejected invoke (cancelConversion turns
\* it into `false` instead).
WrapperRethrows == {"extractFileMetadata", "convertFile"}

\* A dispatch loop without a try/catch of its own.
HandlerCatches_NoDispatchCatch ==
    {"handleFilePaths", "cancelConversion", "cancelAllConversions"}

\* Functions that await the engine call (or the function below them in the
\* chain) inside a try/catch of their own.
HandlerCatches ==
    {"handleFilePaths", "startConversion", "cancelConversion", "cancelAllConversions"}

\* chain: the functions the rejection travels through, innermost first.
Escapes(call, chain) ==
    /\ call \in WrapperRethrows
    /\ \A i \in 1..Len(chain) : chain[i] \notin HandlerCatches

\* The operation left with an unhandled rejection, if any.
Unhandled(call, chain, failed) ==
    IF failed /\ Escapes(call, chain) THEN {chain[Len(chain)]} ELSE {}

\* ------------------------------------------------------------------------
\* Initial state: the application is mounted (the mount effect of
\* useConversion has registered both listeners), no files yet
\* ------------------------------------------------------------------------
\* The subscription with both listeners registered and their unlisten
\* functions stored; the effect's cleanup has not run.
Listening ==
    [pc |-> "done", progressUnlisten |-> TRUE, completeUnlisten |-> TRUE,
     progressOn |-> TRUE, completeOn |-> TRUE, tornDown |-> FALSE]

\* The subscription when the effect has just called setupListeners: both
\* unlisten variables are null, the first listen call is awaited.
Subscribing ==
    [pc |-> "progress", progressUnlisten |-> FALSE, completeUnlisten |-> FALSE,
     progressOn |-> FALSE, completeOn |-> FALSE, tornDown |-> FALSE]

\* The store with room for `slots` suspended handleFilePaths invocations.
InitJobs(slots) ==
    /\ files = <<>>
    /\ isLoading = FALSE
    /\ nextId = 0
    /\ adds = [s \in 1..slots |-> Idle]
    /\ starts = EmptyBag
    /\ startCalls = 0
    /\ last = Other
    /\ ops = [s \in 1..MaxOps |-> Idle]
    /\ unhandled = {}
    /\ cancels = {}
    /\ convState = [c \in ConvIds |-> "unused"]
    /\ cancelRequested = {}

InitStoreWith(slots) == InitJobs(slots) /\ sub = Listening

InitStore == InitStoreWith(MaxAdds)

\* No helper call under observation.
NoCall == [fn |-> "none"]

Init == InitStore /\ fnCall = NoCall

\* ------------------------------------------------------------------------
\* useFiles.handleFilePaths
\* ------------------------------------------------------------------------
\* Ids still to be drawn by the suspended invocations.
IdsReserved ==
    LET Rem(s) == IF adds[s] = Idle THEN 0 ELSE Len(adds[s].paths) - adds[s].idx
        RECURSIVE Sum(_)
        Sum(n) == IF n = 0 THEN 0 ELSE Rem(n) + Sum(n - 1)
    IN  Sum(Cardinality(DOMAIN adds))

PathLists == {<<>>} \cup {<<p>> : p \in Paths} \cup {<<p, q>> : p \in Paths, q \in Paths}

\* Synchronous part: setIsLoading(true), build the first file item, suspend
\* at extractFileMetadata.  With no paths the loop is skipped and the
\* invocation finishes at once.
\* (`cap` bounds the file items created in a run.)
HandleFilePathsWithin(filePaths, cap) ==
    /\ \E s \in DOMAIN adds : adds[s] = Idle
    /\ nextId + IdsReserved + Len(filePaths) <= cap
    /\ IF filePaths = <<>>
       THEN /\ isLoading' = FALSE
            /\ UNCHANGED <<nextId, adds>>
       ELSE /\ isLoading' = TRUE
            /\ nextId' = nextId + 1
            /\ adds' = [adds EXCEPT ![FreeSlot(adds)] =
                          [st |-> "metadata", paths |-> filePaths, idx |-> 1,
                           item |-> NewFileItem(nextId + 1, filePaths[1]),
                           newFiles |-> <<>>]]
    /\ last' = Other
    /\ UNCHANGED <<files, starts, cancels, convState, startCalls, ops, unhandled, fnCall, cancelRequested, sub>>

HandleFilePaths(filePaths) == HandleFilePathsWithin(filePaths, MaxFiles)

\* An intake that shows each file in the list as soon as it is built.
StoreDuringIntake_Eager(fs, pushed) ==
    IF pushed = <<>> THEN fs ELSE Append(fs, pushed[Len(pushed)])

\* The list while the loop is still running: newFiles is a local array and
\* setFiles is not called before the loop has ended.
StoreDuringIntake(fs, pushed) == fs

\* An intake that drops the file when its metadata cannot be read.
PushItem_DropOnFailure(newFiles, item, ok) == IF ok THEN Append(newFiles, item) ELSE newFiles

\* newFiles.push(fileItem) runs after the inner try/catch, metadata or not.
PushItem(newFiles, item, ok) == Append(newFiles, item)

\* An intake that fails the job whose metadata cannot be read.
WithMetadata_FailsJob(item, ok) ==
    IF ok THEN [item EXCEPT !.metadata = TRUE] ELSE [item EXCEPT !.status = "error"]

\* fileItem.metadata = metadata when the call resolved; the catch only logs
\* and leaves the item as it was built.
WithMetadata(item, ok) == [item EXCEPT !.metadata = ok]

\* Continuation after extractFileMetadata settles (ok: resolved, otherwise
\* the rejection is caught and only logged): push the item, then either
\* build the next item and suspend again, or append the batch and clear the
\* loading flag.
MetadataSettled(s, ok) ==
    /\ adds[s] # Idle
    /\ LET t == adds[s]
           item == WithMetadata(t.item, ok)
           pushed == PushItem(t.newFiles, item, ok)
       IN  IF t.idx < Len(t.paths)
           THEN /\ nextId' = nextId + 1
                /\ adds' = [adds EXCEPT ![s] =
                              [t EXCEPT !.idx = t.idx + 1,
                                        !.item = NewFileItem(nextId + 1, t.paths[t.idx + 1]),
                                        !.newFiles = pushed]]
                /\ files' = StoreDuringIntake(files, pushed)
                /\ UNCHANGED isLoading
           ELSE /\ files' = files \o pushed
                /\ isLoading' = FALSE
                /\ adds' = [adds EXCEPT ![s] = Idle]
                /\ UNCHANGED nextId
    /\ last' = Other
    /\ unhandled' = unhandled \cup
                        Unhandled("extractFileMetadata", <<"handleFilePaths">>, ~ok)
    /\ UNCHANGED <<starts, cancels, convState, startCalls, ops, fnCall, cancelRequested, sub>>

\* ------------------------------------------------------------------------
\* ConversionService.startConversion (invoked by App.startConversion with
\* the `files` of the current render)
\* ------------------------------------------------------------------------
\* What the loop reads of the array the invocation was given.
Snapshot(fs) == [i \in 1..Len(fs) |-> [id |-> fs[i].id, status |-> fs[i].status]]

\* The loop's `if (file.status === "converting") continue;`: index of the
\* next file the invocation dispatches.
NextToDispatch(snap, from) ==
    IF \E i \in from..Len(snap) : snap[i].status # "converting"
    THEN CHOOSE i \in from..Len(snap) :
            /\ snap[i].status # "converting"
            /\ \A j \in from..(i - 1) : snap[j].status = "converting"
    ELSE Len(snap) + 1

\* A suspended invocation: `atIssue` is the store status of the file at the
\* moment its convert call was issued.
ConvertIssued(snap, k, selectedFormat, fs) ==
    [st |-> "convert", snap |-> snap, idx |-> k, fmt |-> selectedFormat,
     call |-> "issued", c |-> NoConv, atIssue |-> StatusInStore(fs, snap[k].id)]

\* Synchronous part: early return, then the loop up to the first
\* `await TauriAPI.convertFile(...)`.
StartConversion(selectedFormat) ==
    /\ startCalls < MaxStarts
    /\ startCalls' = startCalls + 1
    /\ IF Len(files) = 0 \/ selectedFormat = ""
       THEN UNCHANGED starts
       ELSE LET snap == Snapshot(files)
                k == NextToDispatch(snap, 1)
            IN  IF k > Len(snap)
                THEN UNCHANGED starts
                ELSE starts' = starts (+) SetToBag({ConvertIssued(snap, k, selectedFormat, files)})
    /\ last' = Other
    /\ UNCHANGED <<files, isLoading, nextId, adds, cancels, convState, ops, unhandled, fnCall, cancelRequested, sub>>

FreshConvId ==
    CHOOSE c \in ConvIds : convState[c] = "unused" /\ \A d \in ConvIds : d < c => convState[d] # "unused"

\* The engine answers invoke('convert_file'): it starts a conversion under a
\* fresh id, or fails.  The answer is not yet seen by the suspended loop.
EngineConvert(t, ok) ==
    /\ t.call = "issued"
    /\ IF ok
       THEN /\ \E c \in ConvIds : convState[c] = "unused"
            /\ convState' = [convState EXCEPT ![FreshConvId] = "running"]
            /\ starts' = (starts (-) SetToBag({t}))
                             (+) SetToBag({[t EXCEPT !.call = "ok", !.c = FreshConvId]})
       ELSE /\ starts' = (starts (-) SetToBag({t}))
                             (+) SetToBag({[t EXCEPT !.call = "fail"]})
            /\ UNCHANGED convState
    /\ last' = Other
    /\ UNCHANGED <<files, isLoading, nextId, adds, cancels, startCalls, ops, unhandled, fnCall, cancelRequested, sub>>

\* A dispatch that leaves the previous error message in place.
DispatchOk_KeepsError(conversionId, selectedFormat) ==
    [status |-> "converting", conversionId |-> conversionId, outputFormat |-> selectedFormat]

\* updates passed to updateFileStatus after convertFile resolved / rejected
\* A success update that does not record the conversion id.
DispatchOk_NoId(conversionId, selectedFormat) ==
    [status |-> "converting", outputFormat |-> selectedFormat, errorMessage |-> UNDEF]

DispatchOk(conversionId, selectedFormat) ==
    [status |-> "converting", conversionId |-> conversionId,
     outputFormat |-> selectedFormat, errorMessage |-> UNDEF]

DispatchFailed == [status |-> "error", errorMessage |-> DISPATCH_MSG]

\* A loop that gives up at the first failed convert call.
ResumeIndex_StopAtFailure(t) ==
    IF t.call = "fail" THEN Len(t.snap) + 1 ELSE NextToDispatch(t.snap, t.idx + 1)

\* The try/catch sits inside the for loop: after either branch the loop goes
\* on with the next file of the array.
ResumeIndex(t) == NextToDispatch(t.snap, t.idx + 1)

\* Continuation after convertFile settles: updateFileStatus for the file
\* just dispatched, then the loop runs on to its next await or to its end.
StartResume(t) ==
    /\ t.call \in {"ok", "fail"}
    /\ LET fs == updateFileStatus(files, t.snap[t.idx].id,
                    IF t.call = "ok" THEN DispatchOk(t.c, t.fmt) ELSE DispatchFailed)
           k == ResumeIndex(t)
       IN  /\ files' = fs
           /\ starts' = IF k > Len(t.snap)
                        THEN starts (-) SetToBag({t})
                        ELSE (starts (-) SetToBag({t}))
                                (+) SetToBag({ConvertIssued(t.snap, k, t.fmt, fs)})
    /\ last' = Other
    /\ unhandled' = unhandled \cup
                        Unhandled("convertFile", <<"startConversion", "App.startConversion">>,
                                  t.call = "fail")
    /\ UNCHANGED <<isLoading, nextId, adds, cancels, convState, startCalls, ops, fnCall, cancelRequested, sub>>

\* ------------------------------------------------------------------------
\* The conversion engine, as far as the listeners and the cancel call see it
\* ------------------------------------------------------------------------
\* The engine emits events for a conversion it has started and not yet
\* completed; the completion event is the last event of a conversion.
EngineEmits(c) == convState[c] = "running"

\* cancel(id) -> bool: true only for a conversion the engine still runs.  A
\* cancelled conversion still ends with its completion event.
EngineCancelAnswer(c, outcome) == outcome = "true" => convState[c] = "running"

\* ------------------------------------------------------------------------
\* useConversion listeners
\* ------------------------------------------------------------------------
ProgressUpdate(text) == [status |-> IF text = "Converting" THEN "converting" ELSE UNDEF]

\* The engine emits conversion_progress for a conversion it is running and
\* the callback runs.
ProgressEvent(c, text) ==
    /\ EngineEmits(c)
    /\ sub.progressOn
    /\ files' = updateFilesByConversionId(files, c, ProgressUpdate(text))
    /\ last' = Other
    /\ UNCHANGED <<isLoading, nextId, adds, starts, cancels, convState, startCalls, ops, unhandled, fnCall, cancelRequested, sub>>

\* A completion that only records the status.
CompletionUpdate_StatusOnly(result) ==
    [status |-> IF result.success THEN "completed" ELSE "error"]

CompletionUpdate(result) ==
    [status |-> IF result.success THEN "completed" ELSE "error",
     outputPath |-> OrUndefined(result.output_path),
     errorMessage |-> OrUndefined(result.error)]

\* The engine emits conversion_complete once per conversion and the
\* callback runs.
CompleteEvent(c, result) ==
    /\ EngineEmits(c)
    /\ files' = IF sub.completeOn
                THEN updateFilesByConversionId(files, c, CompletionUpdate(result))
                ELSE files
    /\ convState' = [convState EXCEPT ![c] = "done"]
    /\ last' = Other
    /\ UNCHANGED <<isLoading, nextId, adds, starts, cancels, startCalls, ops, unhandled, fnCall, cancelRequested, sub>>

\* setupListeners resumes after an awaited listen call: the listener is
\* registered and its unlisten function is stored in the effect's variable;
\* after the first call the second one is issued.  Nothing here looks at
\* whether the cleanup has already run.
ListenResolved ==
    /\ sub.pc # "done"
    /\ sub' = IF sub.pc = "progress"
              THEN [sub EXCEPT !.pc = "complete", !.progressOn = TRUE,
                               !.progressUnlisten = TRUE]
              ELSE [sub EXCEPT !.pc = "done", !.completeOn = TRUE,
                               !.completeUnlisten = TRUE]
    /\ last' = Other
    /\ UNCHANGED <<files, isLoading, nextId, adds, starts, cancels, convState, startCalls,
                   ops, unhandled, fnCall, cancelRequested>>

\* The effect's cleanup: each unlisten function that is stored by now is
\* called, a variable that is still null is skipped.
Teardown ==
    /\ ~sub.tornDown
    /\ sub' = [sub EXCEPT !.tornDown = TRUE,
                          !.progressOn = IF sub.progressUnlisten THEN FALSE ELSE @,
                          !.completeOn = IF sub.completeUnlisten THEN FALSE ELSE @]
    /\ last' = Other
    /\ UNCHANGED <<files, isLoading, nextId, adds, starts, cancels, convState, startCalls,
                   ops, unhandled, fnCall, cancelRequested>>

\* ------------------------------------------------------------------------
\* App.cancelConversion
\* ------------------------------------------------------------------------
\* Conversion ids the rendered list can pass to onCancel.
HeldConvIds == {files[i].conversionId : i \in 1..Len(files)} \ {NoConv}

\* A cancel that marks the job before asking the engine.
AtCancelRequest_Optimistic(fs, c) ==
    [i \in 1..Len(fs) |->
        IF fs[i].conversionId = c
        THEN [fs[i] EXCEPT !.status = "error",
                           !.errorMessage = "Conversion was cancelled by user"]
        ELSE fs[i]]

\* The store as cancelConversion leaves it when it suspends: the only
\* statements before the await are the try and a console.log.
AtCancelRequest(fs, c) == fs

\* Synchronous part: up to `await TauriAPI.cancelConversion(conversionId)`.
CancelConversion(c) ==
    /\ c \in HeldConvIds
    /\ c \notin cancels
    /\ cancels' = cancels \cup {c}
    /\ cancelRequested' = cancelRequested \cup {c}
    /\ files' = AtCancelRequest(files, c)
    /\ last' = Other
    /\ UNCHANGED <<isLoading, nextId, adds, starts, convState, startCalls, ops, unhandled, fnCall, sub>>

\* An optimistic cancel: success whatever the engine's call did.
CancelResult_Optimistic(outcome) == outcome \in CancelOutcomes

\* TauriAPI.cancelConversion: a rejected invoke is caught and becomes false.
CancelResult(outcome) == outcome = "true"

CancelUpdate == [status |-> "error", errorMessage |-> CANCEL_MSG]

\* Continuation after the cancel call settles.
CancelSettled(c, outcome) ==
    /\ c \in cancels
    /\ EngineCancelAnswer(c, outcome)
    /\ cancels' = cancels \ {c}
    /\ files' = IF CancelResult(outcome)
                THEN updateFilesByConversionId(files, c, CancelUpdate)
                ELSE files
    /\ last' = [Other EXCEPT !.op = "cancelSettled", !.c = c, !.outcome = outcome]
    /\ unhandled' = unhandled \cup
                        Unhandled("cancelConversion", <<"cancelConversion">>, outcome = "throw")
    /\ UNCHANGED <<isLoading, nextId, adds, starts, convState, startCalls, ops, fnCall, cancelRequested, sub>>

\* ------------------------------------------------------------------------
\* useFiles.removeFile, useFiles.clearAllFiles, App.cancelAllConversions
\* (the first two are wired with onCancel = cancelConversion)
\* ------------------------------------------------------------------------
\* A removeFile that never cancels.
NeedsCancel_Never(file) == FALSE

\* `file.status === 'converting' && file.conversionId`
NeedsCancel(file) == file.status = "converting" /\ file.conversionId # NoConv

\* A batch cancel that only reaches the first converting file.
CancelCalls_FirstOnly(fs) ==
    LET cf == SelectSeq(fs, NeedsCancel)
    IN  IF cf = <<>> THEN EmptyBag ELSE SetToBag({cf[1].conversionId})

\* files.filter(converting).map(file => cancelConversion(file.conversionId)):
\* the conversion ids the cancel calls are issued for, one call per file.
CancelCalls(fs) ==
    LET cf == SelectSeq(fs, NeedsCancel)
        RECURSIVE Calls(_)
        Calls(n) == IF n = 0 THEN EmptyBag
                    ELSE SetToBag({cf[n].conversionId}) (+) Calls(n - 1)
    IN  Calls(Len(cf))

\* prev.filter(file => file.id !== id)
Without(fs, id) == SelectSeq(fs, LAMBDA f : f.id # id)

\* A suspended invocation: the cancel calls still awaited, how many were
\* issued and have settled, and whether one of them did not succeed.
OpIssued(name, id, calls) ==
    [st |-> "cancelling", op |-> name, id |-> id, waiting |-> calls,
     k |-> BagCardinality(calls), settled |-> 0, failed |-> FALSE]

\* A wait that ends at the first cancel call that does not succeed.
AllSettled_OrFirstFailure(o) == o.waiting = EmptyBag \/ o.failed

\* `await onCancel(...)` / `await Promise.all(...)` of promises that never
\* reject: the invocation resumes when every call has settled.
AllSettled(o) == o.waiting = EmptyBag

\* What the invocation does to the store after its await.
OpFinish(o, fs) ==
    CASE o.op = "removeFile" -> Without(fs, o.id)
      [] o.op = "clearAllFiles" -> <<>>
      [] o.op = "cancelAllConversions" -> fs

OpDone(name, k) == [Other EXCEPT !.op = name, !.k = k, !.done = TRUE]

\* removeFile(id, cancelConversion): with no cancel needed the filter runs at
\* once, otherwise the invocation suspends at `await onCancel(...)`.
RemoveFile(id) ==
    /\ \E f \in {files[i] : i \in 1..Len(files)} : f.id = id
    /\ LET file == CHOOSE f \in {files[i] : i \in 1..Len(files)} : f.id = id
       IN  IF NeedsCancel(file)
           THEN /\ \E s \in 1..MaxOps : ops[s] = Idle
                /\ ops' = [ops EXCEPT ![FreeSlot(ops)] =
                             OpIssued("removeFile", id, SetToBag({file.conversionId}))]
                /\ cancelRequested' = cancelRequested \cup {file.conversionId}
                /\ last' = Other
                /\ UNCHANGED files
           ELSE /\ files' = Without(files, id)
                /\ last' = OpDone("removeFile", 0)
                /\ UNCHANGED <<ops, cancelRequested>>
    /\ UNCHANGED <<isLoading, nextId, adds, starts, cancels, convState, startCalls, unhandled, fnCall, sub>>

\* clearAllFiles(cancelConversion)
ClearAllFiles ==
    /\ LET calls == CancelCalls(files)
       IN  IF calls # EmptyBag
           THEN /\ \E s \in 1..MaxOps : ops[s] = Idle
                /\ ops' = [ops EXCEPT ![FreeSlot(ops)] = OpIssued("clearAllFiles", 0, calls)]
                /\ cancelRequested' = cancelRequested \cup BagToSet(calls)
                /\ last' = Other
                /\ UNCHANGED files
           ELSE /\ files' = <<>>
                /\ last' = OpDone("clearAllFiles", 0)
                /\ UNCHANGED <<ops, cancelRequested>>
    /\ UNCHANGED <<isLoading, nextId, adds, starts, cancels, convState, startCalls, unhandled, fnCall, sub>>

\* cancelAllConversions
CancelAllConversions ==
    /\ LET calls == CancelCalls(files)
       IN  IF calls # EmptyBag
           THEN /\ \E s \in 1..MaxOps : ops[s] = Idle
                /\ ops' = [ops EXCEPT ![FreeSlot(ops)] =
                             OpIssued("cancelAllConversions", 0, calls)]
                /\ cancelRequested' = cancelRequested \cup BagToSet(calls)
                /\ last' = Other
           ELSE /\ last' = OpDone("cancelAllConversions", 0)
                /\ UNCHANGED <<ops, cancelRequested>>
    /\ UNCHANGED <<files, isLoading, nextId, adds, starts, cancels, convState, startCalls,
                   unhandled, fnCall, sub>>

\* One of the invocation's cancelConversion calls settles; when it was the
\* last one awaited the invocation resumes in the same turn.
OpCancelSettled(s, c, outcome) ==
    /\ ops[s] # Idle
    /\ BagIn(c, ops[s].waiting)
    /\ EngineCancelAnswer(c, outcome)
    /\ LET o == ops[s]
           marked == IF CancelResult(outcome)
                     THEN updateFilesByConversionId(files, c, CancelUpdate)
                     ELSE files
           o2 == [o EXCEPT !.waiting = o.waiting (-) SetToBag({c}),
                           !.settled = o.settled + 1,
                           !.failed = o.failed \/ ~CancelResult(outcome)]
       IN  /\ IF AllSettled(o2)
              THEN /\ files' = OpFinish(o, marked)
                   /\ ops' = [ops EXCEPT ![s] = Idle]
              ELSE /\ files' = marked
                   /\ ops' = [ops EXCEPT ![s] = o2]
           /\ last' = [op |-> o.op, c |-> c, outcome |-> outcome, k |-> o.k,
                       settled |-> o2.settled, failed |-> o2.failed,
                       done |-> AllSettled(o2)]
           /\ unhandled' = unhandled \cup
                   Unhandled("cancelConversion", <<"cancelConversion", o.op>>, outcome = "throw")
    /\ UNCHANGED <<isLoading, nextId, adds, starts, cancels, convState, startCalls, fnCall, cancelRequested, sub>>

\* ------------------------------------------------------------------------
\* useFiles.resetFilesForRetry
\* ------------------------------------------------------------------------
ResetFilesForRetry ==
    /\ files' = resetFilesForRetry(files)
    /\ last' = Other
    /\ UNCHANGED <<isLoading, nextId, adds, starts, cancels, convState, startCalls, ops, unhandled, fnCall, cancelRequested, sub>>

\* ------------------------------------------------------------------------
\* TauriAPI.generateOutputPath (strings are sequences of characters)
\* ------------------------------------------------------------------------
MaxPathLen == 4    \* length of the generated input paths
MaxDirLen == 2     \* length of the generated output directories

PathChars == {"/", "\\", ".", "a"}
DirChars == {"/", "\\", "o"}
Strs(chars, n) == UNION {[1..k -> chars] : k \in 0..n}

ClipMov == <<"/", "i", "n", "/", "c", "l", "i", "p", ".", "m", "o", "v">>
Mp4 == <<"m", "p", "4">>
OutDir == <<"/", "o", "u", "t">>
ConvertedDot == <<"_", "c", "o", "n", "v", "e", "r", "t", "e", "d", ".">>

InputPaths == Strs(PathChars, MaxPathLen) \cup {ClipMov}
\* <<>> stands for an output directory that is not given (or is empty).
OutputDirs == Strs(DirChars, MaxDirLen) \cup {OutDir}

\* s.replace(/\\/g, '/')
ReplaceBackslashes(s) == [i \in 1..Len(s) |-> IF s[i] = "\\" THEN "/" ELSE s[i]]

\* s.split('/')
Split(s) ==
    LET RECURSIVE Scan(_, _, _)
        Scan(rest, cur, parts) ==
            IF rest = <<>> THEN Append(parts, cur)
            ELSE IF Head(rest) = "/" THEN Scan(Tail(rest), <<>>, Append(parts, cur))
            ELSE Scan(Tail(rest), Append(cur, Head(rest)), parts)
    IN  Scan(s, <<>>, <<>>)

\* parts.join('/')
Join(parts) ==
    LET RECURSIVE J(_)
        J(n) == IF n = 0 THEN <<>>
                ELSE IF n = 1 THEN parts[1]
                ELSE J(n - 1) \o <<"/">> \o parts[n]
    IN  J(Len(parts))

\* The 0-based index of the first occurrence.
LastIndexOf_First(s, ch) ==
    LET at == {i \in 1..Len(s) : s[i] = ch}
    IN  IF at = {} THEN -1 ELSE (CHOOSE i \in at : \A j \in at : j >= i) - 1

\* s.lastIndexOf(ch): 0-based, -1 when absent.
LastIndexOf(s, ch) ==
    LET at == {i \in 1..Len(s) : s[i] = ch}
    IN  IF at = {} THEN -1 ELSE (CHOOSE i \in at : \A j \in at : j <= i) - 1

\* s.substring(0, n): a negative n counts as 0.
SubstringTo(s, n) == SubSeq(s, 1, IF n < 0 THEN 0 ELSE n)

\* a || b for strings: the empty string is falsy.
OrElse(a, b) == IF a = <<>> THEN b ELSE a

generateOutputPath(inputPath, outputFormat, outputDir) ==
    LET pathParts == Split(ReplaceBackslashes(inputPath))
        fileName == pathParts[Len(pathParts)]
        baseName == OrElse(SubstringTo(fileName, LastIndexOf(fileName, ".")), fileName)
        newFileName == baseName \o ConvertedDot \o outputFormat
    IN  IF outputDir # <<>>
        THEN outputDir \o <<"/">> \o newFileName
        ELSE Join([pathParts EXCEPT ![Len(pathParts)] = newFileName])

GenerateOutputPathCalls ==
    {[fn |-> "generateOutputPath", st |-> "called", inputPath |-> i, outputFormat |-> Mp4,
      outputDir |-> d, result |-> <<>>] : i \in InputPaths, d \in OutputDirs}

GenerateOutputPathReturns ==
    /\ fnCall.fn = "generateOutputPath"
    /\ fnCall.st = "called"
    /\ fnCall' = [fnCall EXCEPT
                    !.st = "returned",
                    !.result = generateOutputPath(fnCall.inputPath, fnCall.outputFormat,
                                                  fnCall.outputDir)]
    /\ UNCHANGED <<files, isLoading, nextId, adds, starts, cancels, convState, startCalls,
                   ops, unhandled, last, cancelRequested, sub>>

\* ------------------------------------------------------------------------
\* FormatUtils.getRecommendedFormats and useConversion.getFormatRecommendations
\* (a file name is the sequence of its '.'-separated parts)
\* ------------------------------------------------------------------------
MaxRecFiles == 3   \* files handed to getFormatRecommendations

VideoFormats == {"mp4", "webm", "avi", "mov", "mkv", "flv", "wmv", "3gp"}
AudioFormats == {"mp3", "aac", "wav", "flac", "ogg", "wma", "m4a", "opus"}
ImageFormats == {"jpg", "jpeg", "png", "webp", "gif", "bmp", "tiff", "svg"}

\* SUPPORTED_FORMATS[format].type
FormatType(format) ==
    IF format \in VideoFormats THEN "video"
    ELSE IF format \in AudioFormats THEN "audio" ELSE "image"

\* FILE_TYPE_PATTERNS (extensions without their leading dot)
FILE_TYPE_PATTERNS ==
    << [extensions |-> {"mp4", "m4v"}, mimeTypes |-> {"video/mp4"}, type |-> "video"],
       [extensions |-> {"webm"}, mimeTypes |-> {"video/webm"}, type |-> "video"],
       [extensions |-> {"avi"}, mimeTypes |-> {"video/x-msvideo"}, type |-> "video"],
       [extensions |-> {"mov"}, mimeTypes |-> {"video/quicktime"}, type |-> "video"],
       [extensions |-> {"mkv"}, mimeTypes |-> {"video/x-matroska"}, type |-> "video"],
       [extensions |-> {"flv"}, mimeTypes |-> {"video/x-flv"}, type |-> "video"],
       [extensions |-> {"wmv"}, mimeTypes |-> {"video/x-ms-wmv"}, type |-> "video"],
       [extensions |-> {"3gp"}, mimeTypes |-> {"video/3gpp"}, type |-> "video"],
       [extensions |-> {"mp3"}, mimeTypes |-> {"audio/mpeg"}, type |-> "audio"],
       [extensions |-> {"aac"}, mimeTypes |-> {"audio/aac"}, type |-> "audio"],
       [extensions |-> {"wav"}, mimeTypes |-> {"audio/wav"}, type |-> "audio"],
       [extensions |-> {"flac"}, mimeTypes |-> {"audio/flac"}, type |-> "audio"],
       [extensions |-> {"ogg"}, mimeTypes |-> {"audio/ogg"}, type |-> "audio"],
       [extensions |-> {"wma"}, mimeTypes |-> {"audio/x-ms-wma"}, type |-> "audio"],
       [extensions |-> {"m4a"}, mimeTypes |-> {"audio/mp4"}, type |-> "audio"],
       [extensions |-> {"opus"}, mimeTypes |-> {"audio/opus"}, type |-> "audio"],
       [extensions |-> {"jpg", "jpeg"}, mimeTypes |-> {"image/jpeg"}, type |-> "image"],
       [extensions |-> {"png"}, mimeTypes |-> {"image/png"}, type |-> "image"],
       [extensions |-> {"webp"}, mimeTypes |-> {"image/webp"}, type |-> "image"],
       [extensions |-> {"gif"}, mimeTypes |-> {"image/gif"}, type |-> "image"],
       [extensions |-> {"bmp"}, mimeTypes |-> {"image/bmp"}, type |-> "image"],
       [extensions |-> {"tiff", "tif"}, mimeTypes |-> {"image/tiff"}, type |-> "image"],
       [extensions |-> {"svg"}, mimeTypes |-> {"image/svg+xml"}, type |-> "image"] >>

\* A backend that converts every format of the table.
BACKEND_SUPPORTED_FORMATS_All == VideoFormats \cup AudioFormats \cup ImageFormats

BACKEND_SUPPORTED_FORMATS == {"mp4", "webm", "avi", "mov"}

\* s.toLowerCase() for the name parts in use.
ToLowerCase(part) == IF part = "MP4" THEN "mp4" ELSE part

\* File names handed in: video, upper-case video, audio, image, not media,
\* no extension, and a video extension the intake does not know.
RecNames ==
    { <<"clip", "mov">>, <<"CLIP", "MP4">>, <<"song", "mp3">>, <<"pic", "png">>,
      <<"notes", "txt">>, <<"clip">>, <<"clip", "m4v">> }

\* TauriAPI.detectFileType: FileItem.type of a file with this name.
detectFileType(fileName) ==
    LET extension == ToLowerCase(fileName[Len(fileName)])
    IN  IF extension \in {"mp4", "avi", "mov", "mkv", "webm", "flv", "wmv"} THEN "video"
        ELSE IF extension \in {"mp3", "wav", "aac", "flac", "ogg", "wma"} THEN "audio"
        ELSE IF extension \in {"jpg", "jpeg", "png", "gif", "bmp", "tiff", "webp"} THEN "image"
        ELSE "unknown"

\* The type of the first pattern among those at the indices hit, "null"
\* when there is none (Array.prototype.find over FILE_TYPE_PATTERNS).
FirstPatternType(hit) ==
    IF hit = {} THEN "null"
    ELSE FILE_TYPE_PATTERNS[CHOOSE i \in hit : \A j \in hit : i <= j].type

\* FormatUtils.detectMediaType(fileName, mimeType)
detectMediaType(fileName, mimeType) ==
    LET extension == ToLowerCase(fileName[Len(fileName)])
        byMime == FirstPatternType({i \in 1..Len(FILE_TYPE_PATTERNS) :
                                       mimeType \in FILE_TYPE_PATTERNS[i].mimeTypes})
        byExt == FirstPatternType({i \in 1..Len(FILE_TYPE_PATTERNS) :
                                      extension \in FILE_TYPE_PATTERNS[i].extensions})
    IN  IF mimeType # "" /\ byMime # "null" THEN byMime
        ELSE IF extension # "" THEN byExt
        ELSE "null"

\* FormatUtils.getBackendSupportedFormatsByType(type)
getBackendSupportedFormatsByType(type) ==
    {f \in VideoFormats \cup AudioFormats \cup ImageFormats :
        FormatType(f) = type /\ f \in BACKEND_SUPPORTED_FORMATS}

\* The formats the switch pushes for a detected type, in its order.
PriorityOf(type) ==
    IF type = "video" THEN <<"mp4", "webm">>
    ELSE IF type = "audio" THEN <<"mp3", "aac">>
    ELSE <<"jpg", "webp">>

\* [...new Set(xs)]: first occurrences, in order.
Unique(xs) ==
    LET RECURSIVE U(_)
        U(n) == IF n = 0 THEN <<>>
                ELSE IF \E i \in 1..(n - 1) : xs[i] = xs[n] THEN U(n - 1)
                ELSE Append(U(n - 1), xs[n])
    IN  U(Len(xs))

\* FormatUtils.getRecommendedFormats(files)
getRecommendedFormats(fs) ==
    LET types == [i \in 1..Len(fs) |-> detectMediaType(fs[i].name, fs[i].type)]
        detectedTypes == Unique(SelectSeq(types, LAMBDA t : t # "null"))
        RECURSIVE Recs(_)
        Recs(n) ==
            IF n = 0 THEN <<>>
            ELSE Recs(n - 1) \o
                 SelectSeq(PriorityOf(detectedTypes[n]),
                           LAMBDA f : f \in getBackendSupportedFormatsByType(detectedTypes[n]))
    IN  Unique(Recs(Len(detectedTypes)))

\* useConversion.getFormatRecommendations over the files of the store
getFormatRecommendations(fs) ==
    IF Len(fs) = 0 THEN <<>> ELSE getRecommendedFormats(fs)

RecFile(name) == [name |-> name, type |-> detectFileType(name)]

RecommendationCalls ==
    {[fn |-> "getFormatRecommendations", st |-> "called", files |-> fs, result |-> <<>>] :
        fs \in UNION {[1..k -> {RecFile(n) : n \in RecNames}] : k \in 0..MaxRecFiles}}

GetFormatRecommendationsReturns ==
    /\ fnCall.fn = "getFormatRecommendations"
    /\ fnCall.st = "called"
    /\ fnCall' = [fnCall EXCEPT !.st = "returned",
                                !.result = getFormatRecommendations(fnCall.files)]
    /\ UNCHANGED <<files, isLoading, nextId, adds, starts, cancels, convState, startCalls,
                   ops, unhandled, last, cancelRequested, sub>>

\* ------------------------------------------------------------------------
\* Specification
\* ------------------------------------------------------------------------
AddFiles == \E filePaths \in PathLists : HandleFilePaths(filePaths)
MetadataReturns == \E s \in DOMAIN adds, ok \in BOOLEAN : MetadataSettled(s, ok)
Start == \E selectedFormat \in Formats : StartConversion(selectedFormat)
ConvertAnswered == \E t \in BagToSet(starts), ok \in BOOLEAN : EngineConvert(t, ok)
ConvertReturns == \E t \in BagToSet(starts) : StartResume(t)
AnyProgressEvent == \E c \in ConvIds, text \in ProgressTexts : ProgressEvent(c, text)
AnyCompleteEvent == \E c \in ConvIds, result \in CompletionPayloads : CompleteEvent(c, result)
Cancel == \E c \in ConvIds : CancelConversion(c)
CancelReturns == \E c \in ConvIds, outcome \in CancelOutcomes : CancelSettled(c, outcome)
IntakePathLists ==
    {<<>>} \cup {<<p>> : p \in IntakePaths} \cup {<<p, q>> : p \in IntakePaths, q \in IntakePaths}
AddIntakeFiles == \E filePaths \in IntakePathLists : HandleFilePaths(filePaths)
AddOverlappingFiles ==
    \E filePaths \in IntakePathLists : HandleFilePathsWithin(filePaths, MaxOverlapFiles)
Remove == \E id \in FileIds : RemoveFile(id)
OpCancelReturns ==
    \E s \in 1..MaxOps, c \in ConvIds, outcome \in CancelOutcomes : OpCancelSettled(s, c, outcome)

Next ==
    \/ AddFiles
    \/ MetadataReturns
    \/ Start
    \/ ConvertAnswered
    \/ ConvertReturns
    \/ AnyProgressEvent
    \/ AnyCompleteEvent
    \/ Cancel
    \/ CancelReturns
    \/ ResetFilesForRetry

Spec == Init /\ [][Next]_vars

\* The store operations that cancel on the way (remove, clear, cancel all)
\* next to intake, dispatch and completion.
NextOps ==
    \/ AddFiles
    \/ MetadataReturns
    \/ Start
    \/ ConvertAnswered
    \/ ConvertReturns
    \/ AnyCompleteEvent
    \/ Remove
    \/ ClearAllFiles
    \/ CancelAllConversions
    \/ OpCancelReturns

SpecOps == Init /\ [][NextOps]_vars

\* Every operation that awaits an engine call, each call free to fail.
NextCalls ==
    \/ AddFiles
    \/ MetadataReturns
    \/ Start
    \/ ConvertAnswered
    \/ ConvertReturns
    \/ Cancel
    \/ CancelReturns
    \/ Remove
    \/ ClearAllFiles
    \/ CancelAllConversions
    \/ OpCancelReturns

SpecCalls == Init /\ [][NextCalls]_vars

\* Intake of files that can be told apart, next to dispatch, remove and
\* clear.
NextIntake ==
    \/ AddIntakeFiles
    \/ MetadataReturns
    \/ Start
    \/ ConvertAnswered
    \/ ConvertReturns
    \/ Remove
    \/ ClearAllFiles
    \/ OpCancelReturns

SpecIntake == Init /\ [][NextIntake]_vars

\* generateOutputPath on its own: one call per behaviour, over every input
\* path and output directory of the generated sets.
InitPath == InitStore /\ fnCall \in GenerateOutputPathCalls
NextPath == GenerateOutputPathReturns
SpecPath == InitPath /\ [][NextPath]_vars

\* The format recommendation on its own, over every list of up to
\* MaxRecFiles files.
InitRec == InitStore /\ fnCall \in RecommendationCalls
NextRec == GetFormatRecommendationsReturns
SpecRec == InitRec /\ [][NextRec]_vars

TypeOK ==
    /\ isLoading \in BOOLEAN
    /\ nextId \in Nat
    /\ Len(files) <= nextId
    /\ \A i \in 1..Len(files) : files[i].id \in 1..nextId /\ files[i].conversionId \in ConvIds \cup {NoConv}
    /\ cancels \subseteq ConvIds
    /\ cancelRequested \subseteq ConvIds
    /\ unhandled \subseteq {"handleFilePaths", "App.startConversion", "cancelConversion",
                            "removeFile", "clearAllFiles", "cancelAllConversions"}

\* Removal next to everything that answers late: dispatch results, cancel
\* results, progress and completion events.
NextRemoval ==
    \/ AddFiles
    \/ MetadataReturns
    \/ Start
    \/ ConvertAnswered
    \/ ConvertReturns
    \/ AnyProgressEvent
    \/ AnyCompleteEvent
    \/ Remove
    \/ ClearAllFiles
    \/ OpCancelReturns

SpecRemoval == Init /\ [][NextRemoval]_vars

\* Every kind of store update: intake, dispatch results, events, reset,
\* removal and clearing, and the cancel results these two wait for.
NextFrame ==
    \/ AddFiles
    \/ MetadataReturns
    \/ Start
    \/ ConvertAnswered
    \/ ConvertReturns
    \/ AnyProgressEvent
    \/ AnyCompleteEvent
    \/ ResetFilesForRetry
    \/ Remove
    \/ ClearAllFiles
    \/ OpCancelReturns

SpecFrame == Init /\ [][NextFrame]_vars

\* The subscription's life next to conversions: the effect has just run.
InitSubscribing == InitJobs(MaxAdds) /\ sub = Subscribing /\ fnCall = NoCall
NextSubscription ==
    \/ ListenResolved
    \/ Teardown
    \/ AddFiles
    \/ MetadataReturns
    \/ Start
    \/ ConvertAnswered
    \/ ConvertReturns
    \/ AnyProgressEvent
    \/ AnyCompleteEvent

SpecSubscription == InitSubscribing /\ [][NextSubscription]_vars

\* Overlapping intake: several handleFilePaths invocations suspended at once.
InitOverlap == InitStoreWith(MaxOverlap) /\ fnCall = NoCall
NextOverlap ==
    \/ AddOverlappingFiles
    \/ MetadataReturns

SpecOverlap == InitOverlap /\ [][NextOverlap]_vars

\* ------------------------------------------------------------------------
\* Properties
\* ------------------------------------------------------------------------
\* The statuses a job rests in after a conversion attempt.
Terminal == {"completed", "error"}
Jobs(fs) == {fs[i] : i \in 1..Len(fs)}

\* C1: once a job is completed or error, no progress event and no
\* completion event changes its status.
C1_EventsKeepTerminal ==
    [][(AnyProgressEvent \/ AnyCompleteEvent) =>
          \A f \in Jobs(files), g \in Jobs(files') :
              (f.id = g.id /\ f.status \in Terminal) => g.status = f.status]_vars

\* C2: a completion event for c that arrives after cancelConversion(c) has
\* marked the job (error, cancellation message) leaves the job's status and
\* errorMessage as the cancellation put them.
C2_CompletionAfterCancelDropped ==
    [][\A c \in ConvIds, result \in CompletionPayloads :
          CompleteEvent(c, result) =>
              \A f \in Jobs(files), g \in Jobs(files') :
                  (/\ f.id = g.id
                   /\ f.conversionId = c
                   /\ f.status = "error"
                   /\ f.errorMessage = CANCEL_MSG)
                  => (g.status = "error" /\ g.errorMessage = CANCEL_MSG)]_vars

C4_StatusInRange ==
    \A f \in Jobs(files) : f.status \in {"pending", "converting", "completed", "error"}

\* C5: a job whose dispatch has returned its conversion id and whose
\* completion event has been delivered is not left converting.
C5_CompletedConversionNotConverting ==
    \A f \in Jobs(files) :
        (f.conversionId # NoConv /\ convState[f.conversionId] = "done")
        => f.status # "converting"

\* C6: every status change of a job is one of pending -> converting,
\* pending -> error, converting -> completed, converting -> error,
\* completed -> pending, error -> pending.
C6_StatusChangesFollowMachine ==
    [][\A f \in Jobs(files), g \in Jobs(files') :
          (f.id = g.id /\ f.status # g.status)
          => <<f.status, g.status>> \in
                { <<"pending", "converting">>, <<"pending", "error">>,
                  <<"converting", "completed">>, <<"converting", "error">>,
                  <<"completed", "pending">>, <<"error", "pending">> }]_vars

\* C7: resetFilesForRetry leaves every converting job unchanged.
C7_ResetKeepsConverting ==
    [][ResetFilesForRetry =>
          \A f \in Jobs(files), g \in Jobs(files') :
              (f.id = g.id /\ f.status = "converting") => g = f]_vars

\* C8: after resetFilesForRetry every job that was completed or error is
\* pending with outputFormat, conversionId, errorMessage and outputPath unset.
C8_ResetClearsDerivedFields ==
    [][ResetFilesForRetry =>
          \A f \in Jobs(files), g \in Jobs(files') :
              (f.id = g.id /\ f.status \in Terminal)
              => (/\ g.status = "pending"
                  /\ g.outputFormat = UNDEF
                  /\ g.conversionId = NoConv
                  /\ g.errorMessage = UNDEF
                  /\ g.outputPath = UNDEF)]_vars

\* C9: no convert call is issued for a job whose status in the store is
\* converting at the moment of the call.
C9_NoConvertCallForConvertingJob ==
    \A t \in BagToSet(starts) : t.atIssue # "converting"

\* C10: when the convert call failed for a job that startConversion was
\* given in a terminal state (a retry of an earlier attempt), the job ends
\* with status error, the failure message, and no conversionId.
C10_DispatchFailureLeavesNoConversionId ==
    [][\A t \in BagToSet(starts) :
          (t.snap[t.idx].status \in Terminal /\ t.call = "fail" /\ StartResume(t)) =>
              \A g \in Jobs(files') :
                  g.id = t.snap[t.idx].id
                  => (/\ g.status = "error"
                      /\ g.errorMessage = DISPATCH_MSG
                      /\ g.conversionId = NoConv)]_vars

\* C11: when a convert call of a batch has failed, the loop goes on: the
\* next job of the batch's array that is not converting gets its convert
\* call, and no other job of the store is changed by the failure.
C11_FailedDispatchDoesNotStopBatch ==
    [][\A t \in BagToSet(starts) :
          (t.call = "fail" /\ StartResume(t)) =>
              /\ \A f \in Jobs(files), g \in Jobs(files') :
                    (f.id = g.id /\ f.id # t.snap[t.idx].id) => g = f
              /\ \A j \in (t.idx + 1)..Len(t.snap) :
                    (/\ t.snap[j].status # "converting"
                     /\ \A i \in (t.idx + 1)..(j - 1) : t.snap[i].status = "converting")
                    => \E u \in BagToSet(starts') :
                          u.snap = t.snap /\ u.idx = j /\ u.call = "issued"]_vars

\* The only batch so far failed on its first job and has issued the convert
\* call for its second.
C11_Witness ==
    /\ startCalls = 1
    /\ \E t \in BagToSet(starts) :
          /\ t.idx = 2
          /\ t.call = "issued"
          /\ \E f \in Jobs(files) :
                f.id = t.snap[1].id /\ f.status = "error" /\ f.errorMessage = DISPATCH_MSG

\* C12: when the convert call succeeded, the job gets status converting, the
\* conversion id the engine returned, the requested format as outputFormat
\* and no errorMessage.
C12_DispatchSuccessMarksConverting ==
    [][\A t \in BagToSet(starts) :
          (t.call = "ok" /\ StartResume(t)) =>
              \A g \in Jobs(files') :
                  g.id = t.snap[t.idx].id
                  => (/\ g.status = "converting"
                      /\ g.conversionId = t.c
                      /\ g.outputFormat = t.fmt
                      /\ g.errorMessage = UNDEF)]_vars

\* A batch that was given its first job in error has dispatched it: the job
\* is converting under a conversion id, with the format set and the message
\* gone.
C12_Witness ==
    \E t \in BagToSet(starts) :
        /\ t.idx = 2
        /\ t.snap[1].status = "error"
        /\ \E f \in Jobs(files) :
              /\ f.id = t.snap[1].id
              /\ f.status = "converting"
              /\ f.conversionId # NoConv
              /\ f.outputFormat = t.fmt
              /\ f.errorMessage = UNDEF

\* C13: a completion event for a converting job that holds the event's id
\* makes the job completed with the event's output path when it reports
\* success, and error with the engine's error text when it reports failure.
C13_CompletionSetsResult ==
    [][\A c \in ConvIds, result \in CompletionPayloads :
          CompleteEvent(c, result) =>
              \A f \in Jobs(files), g \in Jobs(files') :
                  (f.id = g.id /\ f.conversionId = c /\ f.status = "converting")
                  => IF result.success
                     THEN g.status = "completed" /\ g.outputPath = result.output_path
                     ELSE g.status = "error" /\ g.errorMessage = result.error]_vars

\* One job completed with its output path, another failed with the engine's
\* message, both conversions over.
C13_Witness ==
    \E f \in Jobs(files), g \in Jobs(files) :
        /\ f.status = "completed" /\ f.outputPath = "/in/clip_converted.mp4"
        /\ g.status = "error" /\ g.errorMessage = "codec error"
        /\ f.conversionId # NoConv /\ convState[f.conversionId] = "done"
        /\ g.conversionId # NoConv /\ convState[g.conversionId] = "done"

\* C14: a progress or completion event whose id no job holds leaves the
\* store as it was.
C14_UnknownIdIsNoOp ==
    [][\A c \in ConvIds :
          (/\ c \notin HeldConvIds
           /\ \/ \E text \in ProgressTexts : ProgressEvent(c, text)
              \/ \E result \in CompletionPayloads : CompleteEvent(c, result))
          => (files' = files /\ isLoading' = isLoading)]_vars

\* The completion of a conversion was delivered while no job held its id
\* (the dispatch that started it has not resumed yet).
C14_Witness ==
    /\ files # <<>>
    /\ \E t \in BagToSet(starts) :
          t.call = "ok" /\ convState[t.c] = "done" /\ t.c \notin HeldConvIds

\* Indices of the jobs that are converting and hold a conversion id.
ConvertingWithId(fs) ==
    {i \in 1..Len(fs) : fs[i].status = "converting" /\ fs[i].conversionId # NoConv}

\* C15: clearAllFiles issues one cancel call per job that is converting and
\* holds a conversion id, no more and no fewer, and when the last of them
\* has settled, whatever the calls returned or threw, the collection is
\* empty; with no such job it is emptied at once.
C15_ClearAllCancelsEachAndEmpties ==
    [][/\ ClearAllFiles =>
             LET k == Cardinality(ConvertingWithId(files))
             IN  IF k = 0
                 THEN files' = <<>>
                 ELSE \E s \in 1..MaxOps :
                         /\ ops[s] = Idle /\ ops'[s] # Idle
                         /\ ops'[s].op = "clearAllFiles"
                         /\ BagCardinality(ops'[s].waiting) = k
                         /\ \A i \in ConvertingWithId(files) :
                               BagIn(files[i].conversionId, ops'[s].waiting)
       /\ \A s \in 1..MaxOps, c \in ConvIds, outcome \in CancelOutcomes :
             (/\ OpCancelSettled(s, c, outcome)
              /\ ops[s].op = "clearAllFiles"
              /\ ops'[s] = Idle)
             => (files' = <<>> /\ last'.settled = last'.k)]_vars

\* A clearAllFiles that issued two cancel calls, one of which did not
\* succeed, has just finished and the collection is empty.
C15_Witness ==
    /\ last.op = "clearAllFiles"
    /\ last.done
    /\ last.k = 2
    /\ last.failed
    /\ files = <<>>

\* C16: removeFile on a converting job puts the cancel call for the job's
\* conversion id in flight while the job is still in the store, and when
\* the call has settled (true, false or thrown) the job is gone.
C16_RemoveCancelsFirstThenRemoves ==
    [][/\ \A id \in FileIds :
             (RemoveFile(id) /\ \E f \in Jobs(files) : f.id = id /\ f.status = "converting")
             => /\ \E g \in Jobs(files') : g.id = id
                /\ \E s \in 1..MaxOps, f \in Jobs(files) :
                      /\ f.id = id
                      /\ ops[s] = Idle /\ ops'[s] # Idle
                      /\ ops'[s].op = "removeFile"
                      /\ ops'[s].id = id
                      /\ ops'[s].waiting = SetToBag({f.conversionId})
       /\ \A s \in 1..MaxOps, c \in ConvIds, outcome \in CancelOutcomes :
             (OpCancelSettled(s, c, outcome) /\ ops[s].op = "removeFile")
             => \A g \in Jobs(files') : g.id # ops[s].id]_vars

\* A removeFile whose cancel call returned false or failed has just
\* finished.
C16_Witness ==
    /\ last.op = "removeFile"
    /\ last.done
    /\ last.k = 1
    /\ last.outcome \in {"false", "throw"}

\* C17: cancelAllConversions puts a cancel call in flight for every job that
\* is converting and holds a conversion id, all of them at once; it finishes
\* only when every one of them has settled; and a call that returns true is
\* applied to its job also after another call of the batch failed or
\* returned false.
C17_CancelAllWaitsForEveryCall ==
    [][/\ CancelAllConversions =>
             LET k == Cardinality(ConvertingWithId(files))
             IN  IF k = 0
                 THEN ops' = ops
                 ELSE \E s \in 1..MaxOps :
                         /\ ops[s] = Idle /\ ops'[s] # Idle
                         /\ ops'[s].op = "cancelAllConversions"
                         /\ BagCardinality(ops'[s].waiting) = k
                         /\ \A i \in ConvertingWithId(files) :
                               BagIn(files[i].conversionId, ops'[s].waiting)
       /\ \A s \in 1..MaxOps, c \in ConvIds, outcome \in CancelOutcomes :
             (OpCancelSettled(s, c, outcome) /\ ops[s].op = "cancelAllConversions")
             => /\ ops'[s] = Idle => last'.settled = last'.k
                /\ outcome = "true" =>
                      \A f \in Jobs(files), g \in Jobs(files') :
                          (f.id = g.id /\ f.conversionId = c)
                          => (g.status = "error" /\ g.errorMessage = CANCEL_MSG)]_vars

\* A cancelAllConversions of two calls has just finished: one call did not
\* succeed, the last one returned true and its job carries the message.
C17_Witness ==
    /\ last.op = "cancelAllConversions"
    /\ last.done
    /\ last.k = 2
    /\ last.failed
    /\ last.outcome = "true"
    /\ \E f \in Jobs(files) :
          f.conversionId = last.c /\ f.status = "error" /\ f.errorMessage = CANCEL_MSG

\* C18: when handleFilePaths([p1..pn]) finishes, the collection is the
\* previous one followed by n new jobs with paths p1..pn in this order, each
\* pending; with no paths the collection is unchanged.
C18_IntakeAppendsInOrder ==
    [][/\ HandleFilePaths(<<>>) => files' = files
       /\ \A s \in 1..MaxAdds, ok \in BOOLEAN :
             (MetadataSettled(s, ok) /\ adds'[s] = Idle)
             => LET p == adds[s].paths
                IN  /\ Len(files') = Len(files) + Len(p)
                    /\ \A i \in 1..Len(files) : files'[i] = files[i]
                    /\ \A j \in 1..Len(p) :
                          /\ files'[Len(files) + j].path = p[j]
                          /\ files'[Len(files) + j].status = "pending"]_vars

\* Two files with different paths are in the store, the second one pending
\* and without metadata, behind one that is already converting; no intake is
\* in flight.
C18_Witness ==
    /\ \A s \in 1..MaxAdds : adds[s] = Idle
    /\ Len(files) = 2
    /\ files[1].path # files[2].path
    /\ files[1].status = "converting"
    /\ files[2].status = "pending"
    /\ ~files[2].metadata

\* C19: resetFilesForRetry applied to its own result changes nothing.
C19_ResetIdempotent ==
    resetFilesForRetry(resetFilesForRetry(files)) = resetFilesForRetry(files)

\* A store on which the reset has work to do: a completed job with an
\* output path next to a job in error.
C19_Witness ==
    /\ resetFilesForRetry(files) # files
    /\ \E f \in Jobs(files), g \in Jobs(files) :
          /\ f.status = "completed" /\ f.outputPath # UNDEF /\ f.conversionId # NoConv
          /\ g.status = "error" /\ g.errorMessage # UNDEF

\* The input path normalised, its directory part and its file name.
Normalised(p) == ReplaceBackslashes(p)
HasDirectory(p) == \E i \in 1..Len(p) : Normalised(p)[i] = "/"
LastSlash(p) == CHOOSE i \in 1..Len(p) :
                    Normalised(p)[i] = "/" /\ \A j \in (i + 1)..Len(p) : Normalised(p)[j] # "/"
DirectoryOf(p) == SubSeq(Normalised(p), 1, LastSlash(p) - 1)
FileNameOf(p) == IF HasDirectory(p) THEN SubSeq(Normalised(p), LastSlash(p) + 1, Len(p))
                 ELSE Normalised(p)
\* The name without its last extension; a name that only starts with a dot
\* has no extension.
StripLastExtension(name) ==
    LET dots == {i \in 2..Len(name) : name[i] = "."}
    IN  IF dots = {} THEN name
        ELSE SubSeq(name, 1, (CHOOSE i \in dots : \A j \in dots : j <= i) - 1)

C30_OutputPathHasNoBackslash ==
    (fnCall.fn = "generateOutputPath" /\ fnCall.st = "returned") =>
        \A i \in 1..Len(fnCall.result) : fnCall.result[i] # "\\"

\* A job of this media type is among the files of the call.
Present(type) ==
    \E i \in 1..Len(fnCall.files) :
        \E j \in 1..Len(FILE_TYPE_PATTERNS) :
            /\ FILE_TYPE_PATTERNS[j].type = type
            /\ ToLowerCase(fnCall.files[i].name[Len(fnCall.files[i].name)])
                   \in FILE_TYPE_PATTERNS[j].extensions

\* Both formats are in the list, a before b.
ListedInOrder(list, a, b) ==
    \E i \in 1..Len(list), j \in 1..Len(list) : i < j /\ list[i] = a /\ list[j] = b

\* C22 as stated: the recommendation lists mp4 before webm when a video job
\* is present, mp3 before aac when an audio job is present, and jpg before
\* webp when an image job is present.
C22_EachTypeListsItsFormats ==
    (fnCall.fn = "getFormatRecommendations" /\ fnCall.st = "returned") =>
        /\ Present("video") => ListedInOrder(fnCall.result, "mp4", "webm")
        /\ Present("audio") => ListedInOrder(fnCall.result, "mp3", "aac")
        /\ Present("image") => ListedInOrder(fnCall.result, "jpg", "webp")

\* C22 amended: the recommendation is mp4 followed by webm when a video job
\* is present and empty otherwise; audio and image jobs add nothing, because
\* only formats the backend supports are recommended.
C22_OnlyBackendFormatsListed ==
    (fnCall.fn = "getFormatRecommendations" /\ fnCall.st = "returned") =>
        fnCall.result = IF Present("video") THEN <<"mp4", "webm">> ELSE <<>>

\* The recommendation for an audio job together with a video job has been
\* computed.
C22_Witness ==
    /\ fnCall.fn = "getFormatRecommendations"
    /\ fnCall.st = "returned"
    /\ Present("audio")
    /\ Present("video")

\* C23: a progress event for a converting job leaves the job converting and
\* changes no other job, whatever its status text.
C23_ProgressKeepsConverting ==
    [][\A c \in ConvIds, text \in ProgressTexts :
          ProgressEvent(c, text) =>
              \A f \in Jobs(files), g \in Jobs(files') :
                  f.id = g.id =>
                      IF f.conversionId = c /\ f.status = "converting"
                      THEN g.status = "converting"
                      ELSE f.conversionId # c => g = f]_vars

C25_PendingHoldsNoConversionId ==
    \A f \in Jobs(files) : f.status = "pending" => f.conversionId = NoConv

\* A job that was converted (it still has its output path) is pending again
\* after a reset.
C25_Witness ==
    \E f \in Jobs(files) :
        f.status = "pending" /\ f.outputPath # UNDEF /\ f.conversionId = NoConv

\* C26: in every reachable state (the engine handing out a distinct
\* conversion id at every successful convert call), no two jobs with status
\* converting hold the same conversion id.
C26_ConvertingJobsHoldDistinctIds ==
    \A i, j \in 1..Len(files) :
        (/\ i # j
         /\ files[i].status = "converting"
         /\ files[j].status = "converting"
         /\ files[i].conversionId # NoConv)
            => files[i].conversionId # files[j].conversionId

\* Two jobs are converting at once, each with a conversion id.
C26_Witness ==
    \E i, j \in 1..Len(files) :
        /\ i # j
        /\ files[i].status = "converting" /\ files[i].conversionId # NoConv
        /\ files[j].status = "converting" /\ files[j].conversionId # NoConv

\* Ids of the file items a suspended handleFilePaths invocation has built.
BatchIds(t) == {t.newFiles[i].id : i \in 1..Len(t.newFiles)} \cup {t.item.id}
StoreIds(fs) == {fs[i].id : i \in 1..Len(fs)}

\* C27: no state shows a partially applied handleFilePaths batch, also when
\* two invocations overlap: while an invocation is in flight none of its
\* file items is in the list, and the step that ends it puts one item per
\* path in the list.
C27_BatchVisibleWholeOrNotAtAll ==
    [][/\ \A s \in DOMAIN adds :
              adds'[s] # Idle => BatchIds(adds'[s]) \cap StoreIds(files') = {}
       /\ \A s \in DOMAIN adds :
              (adds[s] # Idle /\ adds'[s] = Idle) =>
                  /\ BatchIds(adds[s]) \subseteq StoreIds(files')
                  /\ Cardinality(BatchIds(adds[s])) = Len(adds[s].paths)]_vars

\* A batch of two files has landed while another invocation, which overlapped
\* it, is still in flight with one of its two file items built and pushed.
C27_Witness ==
    /\ Len(files) = 2
    /\ \E s \in DOMAIN adds :
           /\ adds[s] # Idle
           /\ Len(adds[s].paths) = 2
           /\ Len(adds[s].newFiles) = 1
           /\ \A f \in Jobs(files) : adds[s].item.id > f.id /\ adds[s].newFiles[1].id < f.id

\* C28: when extractFileMetadata fails for a path, the file item of that path
\* is still created, pending and without metadata, the items already built
\* by the same call are kept, and the call goes on to build the item of the
\* next path.
C28_MetadataFailureStillCreatesJob ==
    [][\A s \in DOMAIN adds :
          MetadataSettled(s, FALSE) =>
              LET t == adds[s]
                  made == IF adds'[s] = Idle THEN Jobs(files') ELSE Jobs(adds'[s].newFiles)
              IN  /\ \E f \in made :
                         /\ f.id = t.item.id
                         /\ f.path = t.paths[t.idx]
                         /\ f.status = "pending"
                         /\ ~f.metadata
                  /\ Jobs(t.newFiles) \subseteq made
                  /\ t.idx < Len(t.paths) =>
                         /\ adds'[s] # Idle
                         /\ adds'[s].item.path = t.paths[t.idx + 1]
                         /\ adds'[s].item.status = "pending"]_vars

\* A call is past a path whose metadata could not be read: that item is
\* pushed, pending and without metadata, and the item of the next path is
\* built.
C28_Witness ==
    \E s \in DOMAIN adds :
        /\ adds[s] # Idle
        /\ adds[s].idx = 2
        /\ Len(adds[s].newFiles) = 1
        /\ ~adds[s].newFiles[1].metadata
        /\ adds[s].newFiles[1].status = "pending"
        /\ adds[s].item.path = adds[s].paths[2]

\* The partial updates the callers build, and two that rewrite the key the
\* job is looked up by.
PartialUpdates ==
    {DispatchOk(c, fmt) : c \in ConvIds, fmt \in Formats}
        \cup {DispatchFailed, CancelUpdate}
        \cup {ProgressUpdate(text) : text \in ProgressTexts}
        \cup {CompletionUpdate(result) : result \in CompletionPayloads}
        \cup {[conversionId |-> c] : c \in ConvIds \cup {NoConv}}
        \cup {[id |-> i] : i \in FileIds}

\* An id that no job has.
AbsentId == MaxFiles + 1

\* C29: updateFileStatus and updateFilesByConversionId are idempotent and
\* total: the same partial update applied twice gives the store it gives when
\* applied once, an update whose id or conversion id matches no job leaves
\* the store as it was, and no job other than the matching ones is changed.
C29_UpdatesIdempotentAndTotal ==
    \A u \in PartialUpdates :
        /\ \A id \in FileIds \cup {AbsentId} :
               LET once == updateFileStatus(files, id, u)
               IN  /\ updateFileStatus(once, id, u) = once
                   /\ Len(once) = Len(files)
                   /\ \A i \in 1..Len(files) : files[i].id # id => once[i] = files[i]
                   /\ id \notin StoreIds(files) => once = files
        /\ \A c \in ConvIds :
               LET once == updateFilesByConversionId(files, c, u)
               IN  /\ updateFilesByConversionId(once, c, u) = once
                   /\ Len(once) = Len(files)
                   /\ \A i \in 1..Len(files) :
                          files[i].conversionId # c => once[i] = files[i]
                   /\ c \notin HeldConvIds => once = files

\* The store holds a job that an update by id has made converting, with a
\* conversion id, next to a job that holds none, and a conversion id that no
\* job holds exists.
C29_Witness ==
    /\ Len(files) = 2
    /\ \E i, j \in 1..2 :
           /\ files[i].status = "converting" /\ files[i].conversionId # NoConv
           /\ files[j].status = "pending" /\ files[j].conversionId = NoConv
    /\ ConvIds \ HeldConvIds # {}

\* C31: in every reachable state the jobs of the store have pairwise distinct
\* ids (crypto.randomUUID giving a fresh value per item), also when the same
\* path was added twice.
C31_JobIdsDistinct ==
    \A i, j \in 1..Len(files) : i # j => files[i].id # files[j].id

\* The same path was added twice: two jobs with that path are in the store.
C31_Witness ==
    \E i, j \in 1..Len(files) :
        i # j /\ files[i].path = files[j].path /\ files[i].id # files[j].id

\* C32: in every reachable state, every job with status converting holds a
\* conversion id.
C32_ConvertingHoldsConversionId ==
    \A f \in Jobs(files) : f.status = "converting" => f.conversionId # NoConv

\* A job that was converted before (it still has its output path) is
\* converting again, with a conversion id.
C32_Witness ==
    \E f \in Jobs(files) :
        f.status = "converting" /\ f.outputPath # UNDEF /\ f.conversionId # NoConv

\* The conversion runs in the engine and its id has reached the continuation
\* of the convert call that started it.
Acknowledged(c) ==
    /\ convState[c] = "running"
    /\ \A t \in BagToSet(starts) : ~(t.call = "ok" /\ t.c = c)

\* C33: no conversion is orphaned: in every reachable state, a conversion
\* whose id the engine returned and which has not completed is the conversion
\* id of a converting job of the store, or a cancel call was issued for it.
C33_NoConversionOrphaned ==
    \A c \in ConvIds :
        Acknowledged(c) =>
            \/ \E f \in Jobs(files) : f.conversionId = c /\ f.status = "converting"
            \/ c \in cancelRequested

\* The job's latest attempt is over: it was reset (pending), or the convert
\* call of a later dispatch failed (only that update writes DISPATCH_MSG, and
\* it writes no conversion id, so an id the job holds is an earlier one).
Superseded(f) == f.status = "pending" \/ f.errorMessage = DISPATCH_MSG

\* C34: once a job has been reset or dispatched again, a progress or
\* completion event that carries the conversion id of an earlier attempt of
\* the job changes nothing in the store, also when the new attempt failed.
C34_StaleEventsChangeNothing ==
    [][\A c \in ConvIds :
          (/\ \A f \in Jobs(files) : f.conversionId = c => Superseded(f)
           /\ \/ \E text \in ProgressTexts : ProgressEvent(c, text)
              \/ \E result \in CompletionPayloads : CompleteEvent(c, result))
              => files' = files]_vars

\* The id was given to a file item that is neither in the store nor in a
\* batch still being built: the job was taken out by removeFile or
\* clearAllFiles.
Removed(id) ==
    /\ id \in 1..nextId
    /\ id \notin StoreIds(files)
    /\ \A s \in DOMAIN adds : adds[s] # Idle => id \notin BatchIds(adds[s])

\* C35: a removed job never reappears: no step puts a job with the id of a
\* removed job back into the store.
C35_RemovedJobNeverReappears ==
    [][\A id \in 1..nextId : Removed(id) => Removed(id)']_vars

\* A job was removed while its convert call was in flight, and the call has
\* since been answered: the engine runs a conversion that no job holds.
C35_Witness ==
    /\ \E id \in 1..nextId : Removed(id)
    /\ \E c \in ConvIds :
           /\ Acknowledged(c)
           /\ c \notin cancelRequested
           /\ \A f \in Jobs(files) : f.conversionId # c

\* The ids of the jobs of the store, in list order.
IdSeq(fs) == [i \in 1..Len(fs) |-> fs[i].id]

\* Where the job with this id stands in the list.
PositionOf(fs, id) == CHOOSE i \in 1..Len(fs) : fs[i].id = id

\* A step of handleFilePaths, removeFile or clearAllFiles (the last two also
\* when they resume after their cancel calls).
MembershipStep ==
    \/ \E s \in DOMAIN adds, ok \in BOOLEAN : MetadataSettled(s, ok)
    \/ \E id \in StoreIds(files) : RemoveFile(id)
    \/ ClearAllFiles
    \/ \E s \in DOMAIN ops, c \in ConvIds, outcome \in CancelOutcomes :
           OpCancelSettled(s, c, outcome) /\ ops[s].op \in {"removeFile", "clearAllFiles"}

C37_NoEventAfterTeardown ==
    [][(/\ sub.tornDown
        /\ \E c \in ConvIds :
               \/ \E text \in ProgressTexts : ProgressEvent(c, text)
               \/ \E result \in CompletionPayloads : CompleteEvent(c, result))
           => files' = files]_vars

\* C38: the loading flag is true in every state in which at least one
\* handleFilePaths call is in progress, also when two calls overlap, and
\* false when none is.
C38_LoadingWhileAnyIntakeInProgress ==
    isLoading <=> \E s \in DOMAIN adds : adds[s] # Idle

\* C20: no operation is ever left with a rejection nobody caught, whichever
\* of extractFileMetadata, convertFile and cancelConversion fails, and a
\* failed convert call leaves its job in status error.
C20_NoFailureEscapes ==
    /\ [](unhandled = {})
    /\ [][\A t \in BagToSet(starts) :
             (t.call = "fail" /\ StartResume(t))
             => \A g \in Jobs(files') : g.id = t.snap[t.idx].id => g.status = "error"]_vars

\* A job without metadata whose convert call failed is in the store, and a
\* removeFile or cancelAllConversions whose cancel call threw has just
\* finished.
C20_Witness ==
    /\ unhandled = {}
    /\ \E f \in Jobs(files) :
          ~f.metadata /\ f.status = "error" /\ f.errorMessage = DISPATCH_MSG
    /\ last.op \in {"removeFile", "cancelAllConversions"}
    /\ last.done
    /\ last.outcome = "throw"

====
